---- MODULE Spec2Model ----
(***************************************************************************)
(* Model of the visa slot tracker (src/script.py): VisaSlot, the Telegram  *)
(* notifier and VisaSlotTracker.process_slots, run as poll cycles on a     *)
(* tracker's processed_slots set.                                          *)
(*                                                                         *)
(* Strings are modelled as sequences of segments: a string is the tuple of *)
(* its maximal ':'-free pieces with every ':' as a segment of its own, so  *)
(* that string equality is tuple equality and f"{a}:{b}" is                *)
(* a \o <<":">> \o b.  Instants are counted from 2024-01-01 00:00:00 of     *)
(* local (Asia/Kolkata) time: createdon, which has whole seconds, in       *)
(* seconds, and reference times, which datetime.now gives with a fraction  *)
(* of a second, in ticks of half a second.                                 *)
(***************************************************************************)
EXTENDS Integers, Sequences, FiniteSets, TLC

VARIABLES
    serialized,       \* whether the caller runs cycles one after another
    BOT_TOKEN,        \* Config.BOT_TOKEN ("" when not configured)
    processed_slots,  \* VisaSlotTracker.processed_slots
    cycles,           \* number of process_slots calls started so far
    pc,               \* position of each caller inside process_slots
    cyc,              \* number of the cycle each caller is running
    reference_time,   \* process_slots local: reference_time
    response,         \* what RetrySession.get gave the cycle
    start_processed,  \* processed_slots as it was when the cycle started
    targeted_slots,   \* process_slots local: targeted_slots
    new_slot_ids,     \* process_slots local: new_slot_ids
    idx,              \* position of the loop of line 332
    sent,             \* payloads handed to send_message in the cycle, in order
    escaped,          \* whether an exception left process_slots
    attempts,         \* the requests.post calls of the cycle's latest send_message
    emitted_by,       \* history of the tracker: <<identity, cycle>> of every slot payload
    send_failed,      \* history of the tracker: identities whose send failed somewhere
    result,           \* what process_slots returned to each caller
    earlier,          \* history: identities notified by trackers that are gone
    tracker_born,     \* value of cycles when the live tracker was constructed
    probe             \* a function of the script applied to drawn inputs

vars == <<serialized, BOT_TOKEN, processed_slots, cycles, pc, cyc,
          reference_time, response, start_processed, targeted_slots,
          new_slot_ids, idx, sent, escaped, attempts, emitted_by, send_failed,
          result, earlier, tracker_born, probe>>

-----------------------------------------------------------------------------
(* Bounds of the model *)

MaxFeed == 2
MaxCycles == 2

Procs == {1, 2}

-----------------------------------------------------------------------------
(* Config *)

RECENCY_THRESHOLD_MINUTES == 3

TARGETED_LOCATIONS == {<<"CHENNAI">>, <<"CHENNAI VAC">>}

CHAT_IDS == <<"1624851640", "7632912613">>

OffsetSeconds == (5 * 60 + 30) * 60

\* Ticks of a reference time per second.
TicksPerSecond == 2

-----------------------------------------------------------------------------
(* Feed contents *)

CreatedA == <<"2024-01-01 10", ":", "00", ":", "00">>
CreatedB == <<"2024-01-01 09", ":", "58", ":", "30">>
CreatedBad == <<"2024-01-01 10", ":", "61", ":", "00">>
CreatedC == <<"2024-01-01 09", ":", "59", ":", "00">>

Rec(loc, date, n, created) ==
    [visa_location |-> loc, earliest_date |-> date, no_of_apnts |-> n,
     createdon |-> created]

FeedRecords ==
    { Rec(<<"CHENNAI">>, <<"2024-03-01">>, 1, CreatedA),
      Rec(<<"CHENNAI">>, <<"2024-03-01">>, 2, CreatedA),
      Rec(<<"CHENNAI VAC">>, <<"2024-04-02">>, 1, CreatedB),
      Rec(<<"MUMBAI">>, <<"2024-03-01">>, 1, CreatedA),
      Rec(<<"chennai">>, <<"2024-03-01">>, 1, CreatedA),
      Rec(<<"CHENNAI">>, <<"2024-05-05">>, 1, CreatedBad) }

Feeds(max) == UNION { [1..n -> FeedRecords] : n \in 0..max }

\* What RetrySession.get and response.json() can give a cycle, with feeds of
\* at most max records.
Responses(max) ==
    { [kind |-> k, raw |-> <<>>] :
        k \in {"network_exception", "non200", "json_decode_error"} }
    \cup { [kind |-> "ok", raw |-> f] : f \in Feeds(max) }

\* 15:29:59.5, 15:33:59.5 and 15:34:00 local time of 2024-01-01, in ticks.
RefTimes == {111599, 112079, 112080}

SendOutcomes == {"ok", "non200", "exception"}

-----------------------------------------------------------------------------
(* VisaSlot *)

NoMatch == -1

\* "%Y-%m-%d %H" of strptime: hours since the epoch, NoMatch otherwise.
StrpDateHour(seg) ==
    CASE seg = "2024-01-01 09" -> 9
      [] seg = "2024-01-01 10" -> 10
      [] OTHER -> NoMatch

\* "%M" and "%S" of strptime: two digits below 60, NoMatch otherwise.
StrpSixty(seg) ==
    CASE seg = "00" -> 0
      [] seg = "30" -> 30
      [] seg = "58" -> 58
      [] seg = "59" -> 59
      [] OTHER -> NoMatch

\* datetime.strptime(createdon, "%Y-%m-%d %H:%M:%S"), localized: the instant
\* in seconds, or NoMatch where strptime raises ValueError.
Strptime(createdon) ==
    IF /\ Len(createdon) = 5
       /\ createdon[2] = ":"
       /\ createdon[4] = ":"
       /\ StrpDateHour(createdon[1]) # NoMatch
       /\ StrpSixty(createdon[3]) # NoMatch
       /\ StrpSixty(createdon[5]) # NoMatch
    THEN (StrpDateHour(createdon[1]) * 60 + StrpSixty(createdon[3])) * 60
         + StrpSixty(createdon[5])
    ELSE NoMatch

\* VisaSlot.__post_init__: adjusted_time
AdjustedTime(createdon) == Strptime(createdon) + OffsetSeconds

\* VisaSlot(**slot): the record with its adjusted_time
VisaSlot(rec) ==
    [visa_location |-> rec.visa_location, earliest_date |-> rec.earliest_date,
     no_of_apnts |-> rec.no_of_apnts, createdon |-> rec.createdon,
     adjusted_time |-> AdjustedTime(rec.createdon)]

Constructible(rec) == Strptime(rec.createdon) # NoMatch

\* reference_time - self.adjusted_time, in ticks
Delta(slot, ref) == ref - slot.adjusted_time * TicksPerSecond

\* int(x) of Python for x = ticks / per: the fraction is cut off towards zero.
IntOf(ticks, per) ==
    IF ticks >= 0 THEN ticks \div per ELSE 0 - ((0 - ticks) \div per)

\* VisaSlot.minutes_since_creation: int(delta.total_seconds() // 60)
minutes_since_creation(slot, ref) ==
    Delta(slot, ref) \div (60 * TicksPerSecond)

\* VisaSlot.get_relative_time, as the parts of the text it formats:
\* form "just now" | "minute" | "hour" | "day", the quantity q and whether it
\* takes an 's', and for hours the remaining minutes r (0: left out) and
\* whether they take an 's'.
RelText(form, q, r) ==
    [form |-> form, q |-> q, s |-> (q # 1), r |-> r, rs |-> (r # 1)]

\* A faulty variant of get_relative_time: the text is told from the parsed
\* createdon without the offset correction.
get_relative_time_NoOffset(slot, ref) ==
    LET delta == ref - Strptime(slot.createdon) * TicksPerSecond
        total_seconds == IntOf(delta, TicksPerSecond)
        minutes == total_seconds \div 60
        hours == minutes \div 60
        days == delta \div (86400 * TicksPerSecond)
    IN  IF minutes < 1 THEN RelText("just now", 0, 0)
        ELSE IF minutes < 60 THEN RelText("minute", minutes, 0)
        ELSE IF hours < 24 THEN RelText("hour", hours, minutes % 60)
        ELSE RelText("day", days, 0)

\* A faulty variant of get_relative_time: 60 minutes are still told in minutes.
get_relative_time_HourLate(slot, ref) ==
    LET total_seconds == IntOf(Delta(slot, ref), TicksPerSecond)
        minutes == total_seconds \div 60
        hours == minutes \div 60
        days == Delta(slot, ref) \div (86400 * TicksPerSecond)
    IN  IF minutes < 1 THEN RelText("just now", 0, 0)
        ELSE IF minutes <= 60 THEN RelText("minute", minutes, 0)
        ELSE IF hours < 24 THEN RelText("hour", hours, minutes % 60)
        ELSE RelText("day", days, 0)

get_relative_time(slot, ref) ==
    LET total_seconds == IntOf(Delta(slot, ref), TicksPerSecond)
        minutes == total_seconds \div 60
        hours == minutes \div 60
        days == Delta(slot, ref) \div (86400 * TicksPerSecond)
    IN  IF minutes < 1 THEN RelText("just now", 0, 0)
        ELSE IF minutes < 60 THEN RelText("minute", minutes, 0)
        ELSE IF hours < 24 THEN RelText("hour", hours, minutes % 60)
        ELSE RelText("day", days, 0)

NoSlot == VisaSlot(Rec(<<>>, <<>>, 0, <<>>))

\* VisaSlot.to_notification_text
to_notification_text(slot, ref) ==
    [kind |-> "slot", slot |-> slot,
     readable_time |-> get_relative_time(slot, ref)]

\* The separator of line 327
Separator ==
    [kind |-> "separator", slot |-> NoSlot,
     readable_time |-> RelText("just now", 0, 0)]

-----------------------------------------------------------------------------
(* TelegramNotifier *)

\* A faulty variant of send_message: an exception of a post leaves the loop.
send_message_StopOnException(token, outcomes) ==
    IF token = "" THEN <<>>
    ELSE LET stops == { i \in 1..Len(CHAT_IDS) : outcomes[i] = "exception" }
             n == IF stops = {} THEN Len(CHAT_IDS)
                  ELSE CHOOSE i \in stops : \A j \in stops : i <= j
         IN  [i \in 1..n |-> [chat_id |-> CHAT_IDS[i], outcome |-> outcomes[i]]]

\* TelegramNotifier.send_message: the requests.post calls it makes, in order,
\* given what each call of the loop would come back with.
send_message(token, outcomes) ==
    IF token = "" THEN <<>>
    ELSE [i \in 1..Len(CHAT_IDS) |->
            [chat_id |-> CHAT_IDS[i], outcome |-> outcomes[i]]]

\* One entry of a cycle's log of send_message calls: the message and the
\* chat ids a post was made to, in order.
Handed(message, posts) ==
    [message |-> message,
     chats |-> [i \in 1..Len(posts) |-> posts[i].chat_id]]

\* Whether some post of a send_message call did not come back with 200.
SomeFailed(posts) == \E i \in 1..Len(posts) : posts[i].outcome # "ok"

-----------------------------------------------------------------------------
(* VisaSlotTracker *)

Returned(slots) == [raised |-> FALSE, slots |-> slots]
Raised == [raised |-> TRUE, slots |-> <<>>]

\* A faulty variant of fetch_visa_slots: a network exception is not caught.
fetch_visa_slots_NoCatch(resp) ==
    IF resp.kind = "network_exception" THEN Raised
    ELSE IF resp.kind = "non200" THEN Returned(<<>>)
    ELSE IF resp.kind = "json_decode_error" THEN Returned(<<>>)
    ELSE IF resp.raw = <<>> THEN Returned(<<>>)
    ELSE IF \A i \in 1..Len(resp.raw) : Constructible(resp.raw[i])
         THEN Returned([i \in 1..Len(resp.raw) |-> VisaSlot(resp.raw[i])])
         ELSE Returned(<<>>)

\* VisaSlotTracker.fetch_visa_slots
fetch_visa_slots(resp) ==
    IF resp.kind = "network_exception" THEN Returned(<<>>)
    ELSE IF resp.kind = "non200" THEN Returned(<<>>)
    ELSE IF resp.kind = "json_decode_error" THEN Returned(<<>>)
    ELSE IF resp.raw = <<>> THEN Returned(<<>>)
    ELSE IF \A i \in 1..Len(resp.raw) : Constructible(resp.raw[i])
         THEN Returned([i \in 1..Len(resp.raw) |-> VisaSlot(resp.raw[i])])
         ELSE Returned(<<>>)

\* A faulty variant of IsRecent: a slot of exactly the threshold is old.
IsRecent_Strict(slot, ref) ==
    minutes_since_creation(slot, ref) < RECENCY_THRESHOLD_MINUTES

IsRecent(slot, ref) ==
    minutes_since_creation(slot, ref) <= RECENCY_THRESHOLD_MINUTES

\* A faulty variant of filter_recent_slots: the scan stops at the first slot
\* that is not recent.
filter_recent_slots_UntilOld(slots, ref) ==
    LET old == { i \in 1..Len(slots) : ~IsRecent(slots[i], ref) }
    IN  IF old = {} THEN slots
        ELSE SubSeq(slots, 1, (CHOOSE i \in old : \A j \in old : i <= j) - 1)

\* VisaSlotTracker.filter_recent_slots
filter_recent_slots(slots, ref) ==
    SelectSeq(slots, LAMBDA slot : IsRecent(slot, ref))

UpperCase(seg) == IF seg = "chennai" THEN "CHENNAI" ELSE seg

\* A faulty variant of IsTargeted: the location is matched without regard to case.
IsTargeted_IgnoreCase(slot) ==
    [i \in 1..Len(slot.visa_location) |-> UpperCase(slot.visa_location[i])]
        \in TARGETED_LOCATIONS

IsTargeted(slot) == slot.visa_location \in TARGETED_LOCATIONS

\* VisaSlotTracker.filter_targeted_locations
filter_targeted_locations(slots) == SelectSeq(slots, IsTargeted)

\* f"{slot.visa_location}:{slot.earliest_date}:{slot.createdon}"
SlotId(slot) ==
    slot.visa_location \o <<":">> \o slot.earliest_date \o <<":">> \o slot.createdon

CurrentSlotIds(slots) == { SlotId(slots[i]) : i \in 1..Len(slots) }

\* A faulty variant of NewSlotIds: the processed identities are not taken out.
NewSlotIds_NoDedup(current, processed) == current

\* new_slot_ids = current_slot_ids - self.processed_slots
NewSlotIds(current, processed) == current \ processed

\* A faulty variant of UpdateProcessed: the new identities replace the set.
UpdateProcessed_Replace(processed, new) == new

\* A faulty variant of UpdateProcessed: the new identities are not recorded.
UpdateProcessed_Skip(processed, new) == processed

\* self.processed_slots.update(new_slot_ids)
UpdateProcessed(processed, new) == processed \cup new

\* A faulty variant of ShouldNotify: no slot is notified.
ShouldNotify_Never(slot, new) == FALSE

\* A faulty variant of ShouldNotify: every targeted slot of the cycle is notified.
ShouldNotify_Always(slot, new) == TRUE

\* the test of line 334
ShouldNotify(slot, new) == SlotId(slot) \in new

\* A faulty variant of ProcessedAfterSend: a failed send takes the identity out again.
ProcessedAfterSend_Rollback(processed, slot, posts) ==
    IF SomeFailed(posts)
    THEN processed \ {SlotId(slot)}
    ELSE processed

\* Python's None, and a number, as the value a call returns.
None == [none |-> TRUE, value |-> 0]
Number(n) == [none |-> FALSE, value |-> n]

\* The number of individual payloads among the send_message calls of a cycle.
NotifiedCount(log) == Len(SelectSeq(log, LAMBDA h : h.message.kind = "slot"))

\* A faulty variant of ReturnValue: the number of notifications is returned.
ReturnValue_Count(notified) == Number(notified)

\* What process_slots returns (-> None: the return of line 299 and the end of
\* the function), given the number of individual payloads of the cycle.
ReturnValue(notified) == None

\* processed_slots after a slot's send_message call (lines 335-336): the
\* outcome of the posts does not touch it.
ProcessedAfterSend(processed, slot, posts) == processed

-----------------------------------------------------------------------------
(* State *)

NoResponse == [kind |-> "none", raw |-> <<>>]

NoProbe == [fn |-> "none"]

TypeOK ==
    /\ serialized \in BOOLEAN
    /\ BOT_TOKEN \in {"", "token"}
    /\ cycles \in 0..MaxCycles
    /\ pc \in [Procs -> {"idle", "diff", "update", "separator", "loop", "done"}]
    /\ cyc \in [Procs -> 0..MaxCycles]
    /\ reference_time \in [Procs -> RefTimes \cup {0}]
    /\ \A p \in Procs :
         /\ response[p].kind \in
                {"none", "network_exception", "non200", "json_decode_error", "ok"}
         /\ Len(response[p].raw) <= MaxFeed
         /\ \A i \in 1..Len(response[p].raw) : response[p].raw[i] \in FeedRecords
    /\ idx \in [Procs -> 0..(MaxFeed + 1)]
    /\ escaped \in [Procs -> BOOLEAN]

InitLocals ==
    /\ pc = [p \in Procs |-> "idle"]
    /\ cyc = [p \in Procs |-> 0]
    /\ reference_time = [p \in Procs |-> 0]
    /\ response = [p \in Procs |-> NoResponse]
    /\ start_processed = [p \in Procs |-> {}]
    /\ targeted_slots = [p \in Procs |-> <<>>]
    /\ new_slot_ids = [p \in Procs |-> {}]
    /\ idx = [p \in Procs |-> 0]
    /\ sent = [p \in Procs |-> <<>>]
    /\ escaped = [p \in Procs |-> FALSE]
    /\ result = [p \in Procs |-> None]

\* VisaSlotTracker.__init__ and the configuration read at start-up
InitTracker ==
    /\ BOT_TOKEN \in {"", "token"}
    /\ processed_slots = {}
    /\ cycles = 0
    /\ attempts = <<>>
    /\ emitted_by = {}
    /\ send_failed = {}
    /\ earlier = {}
    /\ tracker_born = 0
    /\ InitLocals

Init == serialized = TRUE /\ InitTracker /\ probe = NoProbe

InitConc == serialized \in BOOLEAN /\ InitTracker /\ probe = NoProbe


-----------------------------------------------------------------------------
(* process_slots, step by step *)

Others(p) == Procs \ {p}

\* A serialized caller is a single thread running one cycle after another.
MayStart(p) ==
    IF serialized THEN p = 1 ELSE TRUE

\* Overlapping cycles are explored on feeds of at most one record: one record
\* in each of two cycles is what a double notification takes.
FeedBound == IF serialized THEN MaxFeed ELSE 1

\* Lines 291-311 and 340: take the reference time, fetch, filter.
StartCycle(p) ==
    /\ pc[p] = "idle"
    /\ cycles < MaxCycles
    /\ MayStart(p)
    /\ \E ref \in RefTimes, resp \in Responses(FeedBound) :
         LET fetched == fetch_visa_slots(resp)
             recent_slots == filter_recent_slots(fetched.slots, ref)
             targeted == filter_targeted_locations(recent_slots)
         IN  /\ reference_time' = [reference_time EXCEPT ![p] = ref]
             /\ response' = [response EXCEPT ![p] = resp]
             /\ escaped' = [escaped EXCEPT ![p] = fetched.raised]
             /\ targeted_slots' = [targeted_slots EXCEPT ![p] = targeted]
             /\ pc' = [pc EXCEPT ![p] =
                         IF fetched.raised \/ recent_slots = <<>> \/ targeted = <<>>
                         THEN "done" ELSE "diff"]
             /\ result' = [result EXCEPT ![p] = ReturnValue(0)]
    /\ cycles' = cycles + 1
    /\ cyc' = [cyc EXCEPT ![p] = cycles + 1]
    /\ start_processed' = [start_processed EXCEPT ![p] = processed_slots]
    /\ UNCHANGED <<earlier, tracker_born, probe>>
    /\ UNCHANGED <<serialized, BOT_TOKEN, processed_slots, new_slot_ids, idx,
                   sent, attempts, emitted_by, send_failed>>

\* Lines 314-322 and 338: the identities of the cycle that are not processed.
Diff(p) ==
    /\ pc[p] = "diff"
    /\ LET new == NewSlotIds(CurrentSlotIds(targeted_slots[p]), processed_slots)
       IN  /\ new_slot_ids' = [new_slot_ids EXCEPT ![p] = new]
           /\ pc' = [pc EXCEPT ![p] = IF new = {} THEN "done" ELSE "update"]
           /\ result' = [result EXCEPT ![p] = ReturnValue(0)]
    /\ UNCHANGED <<earlier, tracker_born, probe>>
    /\ UNCHANGED <<serialized, BOT_TOKEN, processed_slots, cycles, cyc,
                   reference_time, response, start_processed, targeted_slots,
                   idx, sent, escaped, attempts, emitted_by, send_failed>>

\* Line 324
Update(p) ==
    /\ pc[p] = "update"
    /\ processed_slots' = UpdateProcessed(processed_slots, new_slot_ids[p])
    /\ pc' = [pc EXCEPT ![p] = "separator"]
    /\ UNCHANGED <<result, earlier, tracker_born, probe>>
    /\ UNCHANGED <<serialized, BOT_TOKEN, cycles, cyc, reference_time,
                   response, start_processed, targeted_slots, new_slot_ids,
                   idx, sent, escaped, attempts, emitted_by, send_failed>>

\* Lines 327-329
SendSeparator(p) ==
    /\ pc[p] = "separator"
    /\ \E outcomes \in [1..Len(CHAT_IDS) -> SendOutcomes] :
         LET posts == send_message(BOT_TOKEN, outcomes)
         IN  /\ attempts' = posts
             /\ sent' = [sent EXCEPT ![p] = Append(@, Handed(Separator, posts))]
    /\ idx' = [idx EXCEPT ![p] = 1]
    /\ pc' = [pc EXCEPT ![p] = "loop"]
    /\ UNCHANGED <<result, earlier, tracker_born, probe>>
    /\ UNCHANGED <<serialized, BOT_TOKEN, processed_slots, cycles, cyc,
                   reference_time, response, start_processed, targeted_slots,
                   new_slot_ids, escaped, emitted_by, send_failed>>

\* Lines 332-336: one turn of the loop over targeted_slots.
LoopStep(p) ==
    /\ pc[p] = "loop"
    /\ LET slot == targeted_slots[p][idx[p]]
           last == (idx[p] = Len(targeted_slots[p]))
       IN  /\ IF ShouldNotify(slot, new_slot_ids[p])
              THEN \E outcomes \in [1..Len(CHAT_IDS) -> SendOutcomes] :
                     LET posts == send_message(BOT_TOKEN, outcomes)
                         message == to_notification_text(slot, reference_time[p])
                     IN  /\ attempts' = posts
                         /\ processed_slots' =
                                ProcessedAfterSend(processed_slots, slot, posts)
                         /\ sent' = [sent EXCEPT ![p] =
                                       Append(@, Handed(message, posts))]
                         /\ emitted_by' = emitted_by \cup {<<SlotId(slot), cyc[p]>>}
                         /\ send_failed' =
                                IF SomeFailed(posts)
                                THEN send_failed \cup {SlotId(slot)}
                                ELSE send_failed
              ELSE UNCHANGED <<processed_slots, sent, attempts, emitted_by,
                               send_failed>>
           /\ idx' = [idx EXCEPT ![p] = @ + 1]
           /\ pc' = [pc EXCEPT ![p] = IF last THEN "done" ELSE "loop"]
           /\ result' = [result EXCEPT ![p] = ReturnValue(NotifiedCount(sent'[p]))]
    /\ UNCHANGED <<earlier, tracker_born, probe>>
    /\ UNCHANGED <<serialized, BOT_TOKEN, cycles, cyc,
                   reference_time, response, start_processed, targeted_slots,
                   new_slot_ids, escaped>>

\* process_slots returns to its caller.
Return(p) ==
    /\ pc[p] = "done"
    /\ pc' = [pc EXCEPT ![p] = "idle"]
    /\ cyc' = [cyc EXCEPT ![p] = 0]
    /\ reference_time' = [reference_time EXCEPT ![p] = 0]
    /\ response' = [response EXCEPT ![p] = NoResponse]
    /\ start_processed' = [start_processed EXCEPT ![p] = {}]
    /\ targeted_slots' = [targeted_slots EXCEPT ![p] = <<>>]
    /\ new_slot_ids' = [new_slot_ids EXCEPT ![p] = {}]
    /\ idx' = [idx EXCEPT ![p] = 0]
    /\ sent' = [sent EXCEPT ![p] = <<>>]
    /\ escaped' = [escaped EXCEPT ![p] = FALSE]
    /\ attempts' = <<>>
    /\ result' = [result EXCEPT ![p] = None]
    /\ UNCHANGED <<earlier, tracker_born, probe>>
    /\ UNCHANGED <<serialized, BOT_TOKEN, processed_slots, cycles,
                   emitted_by, send_failed>>

\* A faulty variant of NewTracker: the next invocation goes on with the
\* processed_slots of the one before.
NewTracker_KeepsState ==
    /\ \A p \in Procs : pc[p] = "idle"
    /\ processed_slots # {}
    /\ earlier' = earlier \cup { e[1] : e \in emitted_by }
    /\ tracker_born' = cycles
    /\ UNCHANGED <<processed_slots, emitted_by, send_failed, result, probe>>
    /\ UNCHANGED <<serialized, BOT_TOKEN, cycles, pc, cyc, reference_time,
                   response, start_processed, targeted_slots, new_slot_ids,
                   idx, sent, escaped, attempts>>

\* main(), line 350: a new VisaSlotTracker, with an empty processed_slots.
NewTracker ==
    /\ \A p \in Procs : pc[p] = "idle"
    /\ processed_slots # {}
    /\ processed_slots' = {}
    /\ emitted_by' = {}
    /\ send_failed' = {}
    /\ earlier' = earlier \cup { e[1] : e \in emitted_by }
    /\ tracker_born' = cycles
    /\ UNCHANGED <<result, probe>>
    /\ UNCHANGED <<serialized, BOT_TOKEN, cycles, pc, cyc, reference_time,
                   response, start_processed, targeted_slots, new_slot_ids,
                   idx, sent, escaped, attempts>>

Next ==
    \/ \E p \in Procs : StartCycle(p)
    \/ \E p \in Procs : Diff(p)
    \/ \E p \in Procs : Update(p)
    \/ \E p \in Procs : SendSeparator(p)
    \/ \E p \in Procs : LoopStep(p)
    \/ \E p \in Procs : Return(p)
    \/ NewTracker

\* Cycles run one after another, as the scheduler of the script runs them.
Spec == Init /\ [][Next]_vars

\* Cycles that may overlap on one tracker.
SpecConc == InitConc /\ [][Next]_vars

-----------------------------------------------------------------------------
(* The functions of the script, applied to drawn inputs *)

MaxProbeSlots == 3

trackerVars == <<serialized, BOT_TOKEN, processed_slots, cycles, pc, cyc,
                 reference_time, response, start_processed, targeted_slots,
                 new_slot_ids, idx, sent, escaped, attempts, emitted_by,
                 send_failed, result, earlier, tracker_born>>

\* Slots to filter: those of the feed that can be constructed, and one that is
\* a minute older than CreatedA.
ProbeSlots ==
    { VisaSlot(rec) : rec \in { r \in FeedRecords : Constructible(r) } }
    \cup { VisaSlot(Rec(<<"CHENNAI">>, <<"2024-06-06">>, 1, CreatedC)),
           VisaSlot(Rec(<<"MUMBAI">>, <<"2024-06-06">>, 1, CreatedC)) }

ProbeSlotSeqs == UNION { [1..n -> ProbeSlots] : n \in 0..MaxProbeSlots }

\* Reference times around the adjusted time of CreatedA (15:30:00), as ticks
\* after it: from two days before to two days and a bit after.
ProbeDeltas ==
    { 0 - 345600, 0 - 7200, 0 - 120, 0 - 1, 0, 1, 119, 120, 239, 240, 479, 480,
      7079, 7080, 7199, 7200, 7320, 10800, 14280, 14400, 14520, 172680,
      172799, 172800, 172920, 180000, 345599, 345600, 352800 }

ProbeRefs == { AdjustedTime(CreatedA) * TicksPerSecond + d : d \in ProbeDeltas }

\* Records whose fields may hold the ':' of the identity.
IdentityRecords ==
    FeedRecords \cup
    { Rec(<<"CHENNAI">>, <<"VAC", ":", "2024-03-01">>, 1, CreatedA),
      Rec(<<"CHENNAI", ":", "VAC">>, <<"2024-03-01">>, 1, CreatedA),
      Rec(<<"CHENNAI">>, <<"2024-03-01">>, 1, CreatedB),
      Rec(<<"CHENNAI">>, <<"2024-04-02">>, 1, CreatedA) }

\* minutes_since_creation, get_relative_time and the recency test on one slot
ProbeAge ==
    /\ probe = NoProbe
    /\ \E slot \in ProbeSlots, ref \in ProbeRefs :
         probe' = [fn |-> "age", slot |-> slot, ref |-> ref,
                   age |-> minutes_since_creation(slot, ref),
                   text |-> get_relative_time(slot, ref),
                   recent |-> IsRecent(slot, ref)]
    /\ UNCHANGED trackerVars

\* filter_recent_slots and filter_targeted_locations, in both orders
ProbeFilter ==
    /\ probe = NoProbe
    /\ \E slots \in ProbeSlotSeqs, ref \in RefTimes :
         probe' = [fn |-> "filter", slots |-> slots, ref |-> ref,
                   recent |-> filter_recent_slots(slots, ref),
                   recent_targeted |->
                       filter_targeted_locations(filter_recent_slots(slots, ref)),
                   targeted_recent |->
                       filter_recent_slots(filter_targeted_locations(slots), ref)]
    /\ UNCHANGED trackerVars

\* the identity of two slots
ProbeIdentity ==
    /\ probe = NoProbe
    /\ \E a \in IdentityRecords, b \in IdentityRecords :
         /\ Constructible(a) /\ Constructible(b)
         /\ probe' = [fn |-> "identity", a |-> a, b |-> b,
                      id_a |-> SlotId(VisaSlot(a)), id_b |-> SlotId(VisaSlot(b))]
    /\ UNCHANGED trackerVars

NextPure == ProbeAge \/ ProbeFilter \/ ProbeIdentity

SpecPure == Init /\ [][NextPure]_vars


-----------------------------------------------------------------------------
(* What the claims speak of *)

Running == { p \in Procs : pc[p] # "idle" }

Finished == { p \in Procs : pc[p] = "done" }

\* The individual payloads a cycle has handed to send_message, in order.
SlotPayloads(p) == SelectSeq(sent[p], LAMBDA h : h.message.kind = "slot")

SeparatorPayloads(p) == SelectSeq(sent[p], LAMBDA h : h.message.kind = "separator")

\* The identity of a feed record: location:earliest_date:createdon.
IdentityOf(rec) ==
    rec.visa_location \o <<":">> \o rec.earliest_date \o <<":">> \o rec.createdon

\* age_minutes of a feed record whose createdon parses, at a reference instant.
AgeOf(rec, ref) ==
    (ref - (Strptime(rec.createdon) + OffsetSeconds) * TicksPerSecond)
        \div (60 * TicksPerSecond)

Parses(rec) == Strptime(rec.createdon) # NoMatch

\* A feed record that is due an alert: it parses, is recent, is at a targeted
\* location and its identity is not in the given Dedup State.
Due(rec, ref, processed) ==
    /\ Parses(rec)
    /\ rec.visa_location \in TARGETED_LOCATIONS
    /\ AgeOf(rec, ref) <= RECENCY_THRESHOLD_MINUTES
    /\ IdentityOf(rec) \notin processed

\* The feed record a slot payload is about.
RecordOf(h) ==
    Rec(h.message.slot.visa_location, h.message.slot.earliest_date,
        h.message.slot.no_of_apnts, h.message.slot.createdon)

PayloadRecords(p) == [k \in 1..Len(SlotPayloads(p)) |-> RecordOf(SlotPayloads(p)[k])]

\* An identity with individual payloads in two different cycles of the tracker.
NotifiedInTwoCycles(id) ==
    \E e1 \in emitted_by, e2 \in emitted_by :
        e1[1] = id /\ e2[1] = id /\ e1[2] # e2[2]

-----------------------------------------------------------------------------
(* C1 *)

\* C1: on one tracker with cycles run one after another, an identity that got
\* an individual payload in some cycle gets none in any later cycle.
C1_NotifiedInOneCycleOnly ==
    \A e \in emitted_by : ~NotifiedInTwoCycles(e[1])

\* A later cycle has met again, at another reference time it still counts as
\* recent at, an identity notified by an earlier cycle, and has finished.
C1_Witness ==
    \E p \in Finished : \E i \in 1..Len(targeted_slots[p]) :
        /\ SlotId(targeted_slots[p][i]) \in start_processed[p]
        /\ \E e \in emitted_by : e[1] = SlotId(targeted_slots[p][i]) /\ e[2] < cyc[p]
        /\ reference_time[p] = 111599

-----------------------------------------------------------------------------
(* C2 *)

\* C2: a cycle hands over at most one individual payload per identity, also
\* when two slots of the feed share the identity and differ in no_of_apnts.
C2_OnePayloadPerIdentity ==
    \A p \in Procs : \A j \in 1..Len(PayloadRecords(p)), k \in 1..Len(PayloadRecords(p)) :
        IdentityOf(PayloadRecords(p)[j]) = IdentityOf(PayloadRecords(p)[k]) => j = k

-----------------------------------------------------------------------------
(* C3 *)

\* C3: when the fetch succeeded, a finished cycle has handed over an individual
\* payload for every record of the feed that was due an alert at its start.
C3_NoMissedAlerts ==
    \A p \in Finished :
        response[p].kind = "ok" =>
            \A i \in 1..Len(response[p].raw) :
                Due(response[p].raw[i], reference_time[p], start_processed[p]) =>
                    \E k \in 1..Len(PayloadRecords(p)) :
                        PayloadRecords(p)[k] = response[p].raw[i]

-----------------------------------------------------------------------------
(* C4 *)

\* C4: every individual payload is about a slot whose location is exactly a
\* member of the target set and whose age at the cycle's reference time is at
\* most the threshold, and a cycle that handed over anything (the separator
\* included) fetched such a slot.
C4_OnlyTargetedRecent ==
    \A p \in Procs :
        /\ \A k \in 1..Len(PayloadRecords(p)) :
              /\ PayloadRecords(p)[k].visa_location \in TARGETED_LOCATIONS
              /\ AgeOf(PayloadRecords(p)[k], reference_time[p])
                    <= RECENCY_THRESHOLD_MINUTES
        /\ sent[p] # <<>> =>
              \E i \in 1..Len(response[p].raw) :
                  Due(response[p].raw[i], reference_time[p], {})

\* A finished cycle that notified a slot and whose feed also held a recent
\* slot at "chennai", which got no payload.
C4_Witness ==
    \E p \in Finished :
        /\ Len(PayloadRecords(p)) = 1
        /\ \E i \in 1..Len(response[p].raw) :
              /\ response[p].raw[i].visa_location = <<"chennai">>
              /\ AgeOf(response[p].raw[i], reference_time[p]) <= RECENCY_THRESHOLD_MINUTES

-----------------------------------------------------------------------------
(* C5 *)

WithoutMalformed(raw) == SelectSeq(raw, Parses)

\* The records a cycle notifies on a feed, in order: those due an alert.
DueRecords(raw, ref, processed) ==
    SelectSeq(raw, LAMBDA rec : Due(rec, ref, processed))

\* C5: a finished cycle whose feed held a record with an unparsable createdon
\* has notified exactly what it notifies on the feed without that record.
C5_OnlyMalformedDropped ==
    \A p \in Finished :
        response[p].kind = "ok" =>
            PayloadRecords(p) =
                DueRecords(WithoutMalformed(response[p].raw), reference_time[p],
                           start_processed[p])


-----------------------------------------------------------------------------
(* C6 *)

FetchFailedOrEmpty(p) ==
    \/ response[p].kind \in {"network_exception", "non200", "json_decode_error"}
    \/ response[p].kind = "ok" /\ response[p].raw = <<>>

\* C6: a cycle whose fetch failed or gave no slots is over at once: it has
\* handed nothing to send_message, processed_slots is as it was at the start
\* of the cycle, and no exception left process_slots.
C6_FetchFailureNotifiesNothing ==
    \A p \in Running :
        FetchFailedOrEmpty(p) =>
            /\ pc[p] = "done"
            /\ sent[p] = <<>>
            /\ processed_slots = start_processed[p]
            /\ ~escaped[p]

\* A cycle that got a non-200 status on a tracker that has identities.
C6_Witness ==
    \E p \in Finished :
        /\ response[p].kind = "non200"
        /\ start_processed[p] # {}
        /\ processed_slots = start_processed[p]

-----------------------------------------------------------------------------
(* C7 *)

\* C7: an identity whose send failed for some destination stays in
\* processed_slots and has payloads in one cycle only.
C7_FailedSendStaysProcessed ==
    \A id \in send_failed :
        /\ id \in processed_slots
        /\ ~NotifiedInTwoCycles(id)

\* A later cycle has met again an identity whose send failed in an earlier
\* cycle, and has finished without a payload for it.
C7_Witness ==
    \E p \in Finished : \E i \in 1..Len(targeted_slots[p]) :
        /\ SlotId(targeted_slots[p][i]) \in send_failed
        /\ \E e \in emitted_by : e[1] = SlotId(targeted_slots[p][i]) /\ e[2] < cyc[p]
        /\ sent[p] = <<>>

-----------------------------------------------------------------------------
(* C8 *)

\* The slots of the cycle the loop of line 332 is to notify.
ToNotify(p) ==
    SelectSeq(targeted_slots[p], LAMBDA slot : SlotId(slot) \in new_slot_ids[p])

\* C8: with a bot token, every payload handed to send_message was posted once
\* to each chat id, in the order of CHAT_IDS, whatever the posts came back
\* with, and a finished cycle has handed over the separator and a payload for
\* every slot it had to notify.
C8_EveryDestinationAttempted ==
    BOT_TOKEN # "" =>
        /\ attempts # <<>> =>
              [i \in 1..Len(attempts) |-> attempts[i].chat_id] = CHAT_IDS
        /\ \A p \in Procs :
              /\ \A k \in 1..Len(sent[p]) : sent[p][k].chats = CHAT_IDS
              /\ (p \in Finished /\ new_slot_ids[p] # {}) =>
                    Len(sent[p]) = 1 + Len(ToNotify(p))

\* The last send_message call of a finished cycle met an exception at the
\* first chat id and a non-200 at the second, after a payload whose send had
\* failed too.
C8_Witness ==
    /\ BOT_TOKEN # ""
    /\ Len(attempts) = Len(CHAT_IDS)
    /\ attempts[1].outcome = "exception"
    /\ attempts[2].outcome = "non200"
    /\ \E p \in Finished :
          /\ Len(SlotPayloads(p)) = 2
          /\ IdentityOf(PayloadRecords(p)[1]) \in send_failed
          /\ IdentityOf(PayloadRecords(p)[1]) # IdentityOf(PayloadRecords(p)[2])

-----------------------------------------------------------------------------
(* C9 *)

\* The slots the cycle got from fetch_visa_slots that are recent, targeted and
\* not in processed_slots as it was at the start of the cycle, in feed order.
NewTargetedRecent(p) ==
    DueRecords([i \in 1..Len(fetch_visa_slots(response[p]).slots) |->
                   response[p].raw[i]],
               reference_time[p], start_processed[p])

\* C9: a cycle hands over at most one separator, and before anything else; a
\* finished cycle has handed one over exactly if it had a new targeted recent
\* slot, and its individual payloads are those slots in feed order.
C9_SeparatorLeadsBatch ==
    \A p \in Procs :
        /\ Len(SeparatorPayloads(p)) <= 1
        /\ sent[p] # <<>> => sent[p][1].message.kind = "separator"
        /\ p \in Finished =>
              /\ Len(SeparatorPayloads(p)) = 1 <=> NewTargetedRecent(p) # <<>>
              /\ PayloadRecords(p) = NewTargetedRecent(p)

\* A finished cycle that handed over the separator and then two slots of
\* different identities, in the order of the feed.
C9_Witness ==
    \E p \in Finished :
        /\ Len(sent[p]) = 3
        /\ sent[p][1].message.kind = "separator"
        /\ RecordOf(sent[p][2]) = response[p].raw[1]
        /\ RecordOf(sent[p][3]) = response[p].raw[2]
        /\ IdentityOf(response[p].raw[1]) # IdentityOf(response[p].raw[2])

-----------------------------------------------------------------------------
(* C10 *)

\* C10: with the cycles serialized, no identity has individual payloads in
\* two cycles of the tracker.
C10_SerializedNeverDoubleNotifies ==
    serialized => \A e \in emitted_by : ~NotifiedInTwoCycles(e[1])

\* Two overlapping cycles both found the same identity new and both handed
\* over an individual payload for it.
C10_Witness ==
    /\ ~serialized
    /\ \E id \in new_slot_ids[1] \cap new_slot_ids[2] :
          /\ cyc[1] # cyc[2]
          /\ <<id, cyc[1]>> \in emitted_by
          /\ <<id, cyc[2]>> \in emitted_by


-----------------------------------------------------------------------------
(* C11 *)

\* The slots of a sequence whose age at ref is at most the threshold, in the
\* order of the sequence.
RECURSIVE WithinThreshold(_, _)
WithinThreshold(slots, ref) ==
    IF slots = <<>> THEN <<>>
    ELSE IF AgeOf(Head(slots), ref) <= RECENCY_THRESHOLD_MINUTES
         THEN <<Head(slots)>> \o WithinThreshold(Tail(slots), ref)
         ELSE WithinThreshold(Tail(slots), ref)

\* C11: filter_recent_slots gives exactly the slots of its input whose age at
\* the reference time is at most the threshold, unchanged and in input order,
\* and processed_slots is as it was.
C11_RecentSubsequence ==
    probe.fn = "filter" =>
        /\ probe.recent = WithinThreshold(probe.slots, probe.ref)
        /\ processed_slots = {}

\* An input with a slot of age 3, which is kept, after a slot of age 4, which
\* is dropped.
C11_Witness ==
    /\ probe.fn = "filter"
    /\ Len(probe.slots) = 2
    /\ AgeOf(probe.slots[1], probe.ref) = RECENCY_THRESHOLD_MINUTES + 1
    /\ AgeOf(probe.slots[2], probe.ref) = RECENCY_THRESHOLD_MINUTES
    /\ probe.recent = <<probe.slots[2]>>

-----------------------------------------------------------------------------
(* C12 *)

\* The text the specification gives for an age in minutes: the form, the
\* quantity, whether it is followed by 's', and for hours the minutes part
\* (0: omitted) and whether it is followed by 's'.
TextOfAge(age) ==
    IF age < 1 THEN
        [form |-> "just now", q |-> 0, s |-> TRUE, r |-> 0, rs |-> TRUE]
    ELSE IF age < 60 THEN
        [form |-> "minute", q |-> age, s |-> ~(age = 1), r |-> 0, rs |-> TRUE]
    ELSE IF age < 1440 THEN
        [form |-> "hour", q |-> age \div 60, s |-> ~(age \div 60 = 1),
         r |-> age % 60, rs |-> ~(age % 60 = 1)]
    ELSE
        [form |-> "day", q |-> age \div 1440, s |-> ~(age \div 1440 = 1),
         r |-> 0, rs |-> TRUE]

ProbedAge == AgeOf(probe.slot, probe.ref)

\* C12: for every slot and reference time get_relative_time gives "just now"
\* below one minute of age (negative ages included), minutes below 60, hours
\* and remaining minutes below 1440 and days from 1440 on, with 's' unless
\* the quantity is 1; ages 0, 1, 59, 60, 90 and 1440 give "just now",
\* "1 minute ago", "59 minutes ago", "1 hour ago", "1 hour 30 minutes ago"
\* and "1 day ago".
C12_RelativeTimeText ==
    probe.fn = "age" =>
        /\ probe.text = TextOfAge(ProbedAge)
        /\ ProbedAge <= 0 => probe.text.form = "just now"
        /\ ProbedAge = 1 =>
              probe.text.form = "minute" /\ probe.text.q = 1 /\ ~probe.text.s
        /\ ProbedAge = 59 =>
              probe.text.form = "minute" /\ probe.text.q = 59 /\ probe.text.s
        /\ ProbedAge = 60 =>
              /\ probe.text.form = "hour" /\ probe.text.q = 1 /\ ~probe.text.s
              /\ probe.text.r = 0
        /\ ProbedAge = 90 =>
              /\ probe.text.form = "hour" /\ probe.text.q = 1 /\ ~probe.text.s
              /\ probe.text.r = 30 /\ probe.text.rs
        /\ ProbedAge = 1440 =>
              probe.text.form = "day" /\ probe.text.q = 1 /\ ~probe.text.s

\* An age of 60 minutes told as "1 hour ago".
C12_Witness ==
    /\ probe.fn = "age"
    /\ ProbedAge = 60
    /\ probe.text.form = "hour" /\ probe.text.q = 1 /\ probe.text.r = 0

-----------------------------------------------------------------------------
(* C13 *)

\* C13 as stated: a finished cycle has returned to its caller the number of
\* individual payloads it handed over, 0 when it handed over none.
C13_ReturnsNotificationCount ==
    \A p \in Finished : result[p] = Number(Len(SlotPayloads(p)))

\* C13, amended: a finished cycle has returned no value (None) to its caller,
\* whatever number of individual payloads it handed over.
C13_ReturnsNone ==
    \A p \in Finished : result[p] = None

\* A finished cycle that handed over two individual payloads and returned None.
C13_Witness ==
    \E p \in Finished :
        /\ Len(SlotPayloads(p)) = 2
        /\ result[p] = None

-----------------------------------------------------------------------------
(* C14 *)

\* C14: no step of a cycle removes an identity from processed_slots: while
\* the tracker is the same, the set after a step contains the set before it.
C14_ProcessedGrowsMonotonically ==
    [][tracker_born' = tracker_born => processed_slots \subseteq processed_slots']_vars

\* A finished cycle that began with identities recorded, added one, and kept
\* the earlier ones.
C14_Witness ==
    \E p \in Finished :
        /\ start_processed[p] # {}
        /\ start_processed[p] \subseteq processed_slots
        /\ start_processed[p] # processed_slots

-----------------------------------------------------------------------------
(* C15 *)

\* reference - (parse(createdon) + 330 minutes), in ticks.
ProbedDelta ==
    probe.ref - (Strptime(probe.slot.createdon) + 330 * 60) * TicksPerSecond

\* floor(delta / 60 s)
ProbedFloorMinutes == ProbedDelta \div (60 * TicksPerSecond)

\* The text tells the whole minutes m, as far as its form shows them.
TellsMinutes(text, m) ==
    \/ text.form = "just now" /\ m = 0
    \/ text.form = "minute" /\ text.q = m
    \/ text.form = "hour" /\ text.q * 60 + text.r = m /\ text.r < 60
    \/ text.form = "day" /\ text.q = m \div 1440

\* C15: for every slot and reference time with a non-negative delta, the age
\* of the recency filter and the minutes the relative-age text tells are both
\* floor((reference - (parse(createdon) + 330 minutes)) / 60 s); a slot the
\* recency filter keeps is never told older than the threshold.
C15_OffsetAppliedIdentically ==
    probe.fn = "age" =>
        /\ ProbedDelta >= 0 =>
              /\ probe.age = ProbedFloorMinutes
              /\ TellsMinutes(probe.text, ProbedFloorMinutes)
        /\ probe.recent =>
              \/ probe.text.form = "just now"
              \/ probe.text.form = "minute"
                   /\ probe.text.q <= RECENCY_THRESHOLD_MINUTES

\* A slot of age exactly the threshold: kept by the filter and told as
\* "3 minutes ago".
C15_Witness ==
    /\ probe.fn = "age"
    /\ ProbedDelta >= 0
    /\ probe.age = RECENCY_THRESHOLD_MINUTES
    /\ probe.recent
    /\ probe.text.form = "minute" /\ probe.text.q = RECENCY_THRESHOLD_MINUTES

-----------------------------------------------------------------------------
(* C16 *)

\* C16: for every slot sequence and reference time, filter_recent_slots
\* followed by filter_targeted_locations gives the same sequence as
\* filter_targeted_locations followed by filter_recent_slots.
C16_FiltersCommute ==
    probe.fn = "filter" => probe.recent_targeted = probe.targeted_recent

\* An input with a slot only the recency filter drops, a slot only the
\* location filter drops and a slot both keep.
C16_Witness ==
    /\ probe.fn = "filter"
    /\ \E i, j, k \in 1..Len(probe.slots) :
          /\ probe.slots[i].visa_location \in TARGETED_LOCATIONS
          /\ AgeOf(probe.slots[i], probe.ref) > RECENCY_THRESHOLD_MINUTES
          /\ probe.slots[j].visa_location \notin TARGETED_LOCATIONS
          /\ AgeOf(probe.slots[j], probe.ref) <= RECENCY_THRESHOLD_MINUTES
          /\ probe.recent_targeted = <<probe.slots[k]>>
          /\ probe.targeted_recent = <<probe.slots[k]>>

-----------------------------------------------------------------------------
(* C17 *)

\* The identities of the individual payloads a cycle has handed over.
PayloadIdentities(p) ==
    { IdentityOf(PayloadRecords(p)[k]) : k \in 1..Len(PayloadRecords(p)) }

\* C17: at the end of a cycle run by a serialized caller, processed_slots is
\* the set of identities with an individual payload handed over in this or an
\* earlier cycle of the tracker, and the identities the cycle inserted are
\* those of the payloads it handed over.
C17_ProcessedIsNotified ==
    /\ (\A p \in Procs : pc[p] \in {"idle", "done"}) =>
           processed_slots = { e[1] : e \in emitted_by }
    /\ \A p \in Finished :
           processed_slots \ start_processed[p] = PayloadIdentities(p)

\* The end of a cycle that inserted an identity on a tracker that held
\* another one from an earlier cycle.
C17_Witness ==
    \E p \in Finished :
        /\ start_processed[p] # {}
        /\ PayloadIdentities(p) # {}
        /\ \E e \in emitted_by : e[2] < cyc[p]
        /\ processed_slots = start_processed[p] \cup PayloadIdentities(p)

-----------------------------------------------------------------------------
(* C18 *)

\* The cycle of p is the first one of its tracker: the cycle an invocation of
\* main() runs.
FirstOfTracker(p) == cyc[p] = tracker_born + 1

\* The records of the feed that fetch_visa_slots turned into slots.
FetchedRecords(p) ==
    [i \in 1..Len(fetch_visa_slots(response[p]).slots) |-> response[p].raw[i]]

\* C18: the cycle of an invocation of main() starts on an empty
\* processed_slots and notifies every targeted slot of its feed whose age is
\* at most the threshold, whether or not an earlier invocation has notified
\* it already.
C18_FreshTrackerNotifiesAgain ==
    \A p \in Finished :
        FirstOfTracker(p) =>
            /\ start_processed[p] = {}
            /\ PayloadRecords(p) = DueRecords(FetchedRecords(p), reference_time[p], {})

\* An invocation has notified a slot that an earlier invocation notified.
C18_Witness ==
    \E p \in Finished :
        /\ FirstOfTracker(p)
        /\ tracker_born > 0
        /\ \E id \in PayloadIdentities(p) : id \in earlier

-----------------------------------------------------------------------------
(* C19 *)

\* The fields the identity is built from.
Triple(rec) == <<rec.visa_location, rec.earliest_date, rec.createdon>>

\* C19: two slots that differ in location, earliest date or createdon never
\* get the same identity string, also when a field holds a ':'.
C19_IdentityInjective ==
    probe.fn = "identity" =>
        (Triple(probe.a) # Triple(probe.b) => probe.id_a # probe.id_b)

====
